---- MODULE Spec2Model ----
(***************************************************************************)
(* A model of bfirs: the Brainfuck compiler (parser, jump resolver,        *)
(* peephole optimizer) and the bounds-checked interpreter.                 *)
(*                                                                         *)
(* Indices (instruction_pointer, ptr, jump targets, read_idx, write_idx)   *)
(* are 0-based as in the Rust source; the TLA+ sequences that hold the     *)
(* instructions and the data array are 1-based, hence the "+ 1" in every   *)
(* element access.                                                         *)
(***************************************************************************)
EXTENDS Integers, Sequences, FiniteSets, TLC

(***************************************************************************)
(* Bounds of the model.                                                    *)
(***************************************************************************)
\* longest program text explored by the exhaustive family
MaxCodeLen == 3
\* largest data array (Builder::data_array_size)
MaxArrayLen == 2
\* largest instruction limit (Builder::instruction_limit)
MaxLimit == 3
\* most bytes an unlimited run writes: a limited run is stopped by its limit
MaxOutput == 3
\* longest instruction vector handed to InstructionStream::new
MaxStreamLen == 3
\* a pointer amount large enough for a sum above MIN_ARRAY_SIZE
LargeAmount == 40000
\* a target a LoopStart or LoopEnd holds before resolution, besides 0
Placeholder == 5

(***************************************************************************)
(* Program constants.                                                      *)
(***************************************************************************)
\* InstructionStream::MIN_ARRAY_SIZE
MIN_ARRAY_SIZE == 30000
\* The longest tape "+[>+]" is run on.
MaxTape == 4
\* The tape of the test programs: of Builder::new's 30,000 cells, the ones
\* "++++[>++++[>++++<-]<-]>>+." can reach.
TestTape == 3
\* the instruction limit of test.rs's run_output
TEST_INSTRUCTION_LIMIT == 1000000
\* The largest pointer amount.  NonZeroU32 holds up to 4294967295; TLC's
\* integers are 32-bit signed, so the largest TLC integer stands for it.
U32_MAX == 2147483647

VARIABLES
    code,                    \* the program text handed to from_code
    T,                       \* the cell type, as its width in bits
    instructions,            \* InstructionStream::instructions
    recommended_array_size,  \* InstructionStream::recommended_array_size
    compiled,                \* Result of the last compile step
    optimized,               \* whether optimize has been applied
    data,                    \* Interpreter::data
    ptr,                     \* Interpreter::ptr
    instructions_left,       \* Interpreter::instructions_left
    input,                   \* the bytes left in Interpreter::input
    output,                  \* the bytes written to Interpreter::output
    instruction_pointer,     \* run's local instruction_pointer
    result,                  \* what run has returned, or Running
    config,                  \* the Builder's settings
    unoptimized,             \* the outcome of the unoptimized run
    executed,                \* instructions a limited run has completed
    phase                    \* where the pipeline stands

vars == <<code, T, instructions, recommended_array_size, compiled, optimized,
          data, ptr, instructions_left, input, output, instruction_pointer,
          result, config, unoptimized, executed, phase>>

(***************************************************************************)
(* Option<T>: None is the empty sequence, Some(v) the one-element one.     *)
(***************************************************************************)
None == <<>>
Some(v) == <<v>>

(***************************************************************************)
(* Cell types (cell_type.rs).  u8 and u16 are modelled exactly; u32 values *)
(* do not fit TLC's integers.                                              *)
(***************************************************************************)
CellTypes == {8, 16}
Modulus(t) == 2 ^ t
CellMax(t) == Modulus(t) - 1
ZERO == 0
ONE_NON_ZERO == 1
\* wrapping_add that stops at the largest value instead of wrapping
wrapping_add_saturating(a, b, t) == IF a + b > CellMax(t) THEN CellMax(t) ELSE a + b

wrapping_add(a, b, t) == (a + b) % Modulus(t)
wrapping_sub(a, b, t) == (a + Modulus(t) - b) % Modulus(t)
truncate_to_byte(v) == v % 256
\* NonZeroU32 checked_add: None on overflow
checked_add(a, b) == IF a > U32_MAX - b THEN None ELSE Some(a + b)

(***************************************************************************)
(* Instructions (instruction.rs).                                          *)
(***************************************************************************)
Set(v) == [op |-> "Set", arg |-> v]
Write == [op |-> "Write", arg |-> 0]
Read == [op |-> "Read", arg |-> 0]
LoopStart(target) == [op |-> "LoopStart", arg |-> target]
LoopEnd(target) == [op |-> "LoopEnd", arg |-> target]
Inc(amount) == [op |-> "Inc", arg |-> amount]
Dec(amount) == [op |-> "Dec", arg |-> amount]
IncPtr(amount) == [op |-> "IncPtr", arg |-> amount]
DecPtr(amount) == [op |-> "DecPtr", arg |-> amount]

\* The bytes that are instructions.
CommandBytes == {"+", "-", ">", "<", ".", ",", "[", "]"}

\* TryFrom<u8> for Instruction: None for a byte that is no instruction.
try_from(value) ==
    CASE value = "+" -> Some(Inc(ONE_NON_ZERO))
      [] value = "-" -> Some(Dec(ONE_NON_ZERO))
      [] value = ">" -> Some(IncPtr(1))
      [] value = "<" -> Some(DecPtr(1))
      [] value = "." -> Some(Write)
      [] value = "," -> Some(Read)
      [] value = "[" -> Some(LoopStart(0))
      [] value = "]" -> Some(LoopEnd(0))
      [] OTHER -> None

RECURSIVE instructions_until_other(_)
\* The parser stopping at the first byte that is no instruction (map_while
\* in the place of filter_map).
instructions_until_other(text) ==
    IF text = <<>> \/ try_from(Head(text)) = None THEN <<>>
    ELSE try_from(Head(text)) \o instructions_until_other(Tail(text))

RECURSIVE instructions_from_text(_)
\* text.filter_map(|byte| Instruction::try_from(byte).ok()).collect()
instructions_from_text(text) ==
    IF text = <<>> THEN <<>>
    ELSE try_from(Head(text)) \o instructions_from_text(Tail(text))

(***************************************************************************)
(* Jump resolution (compile/mod.rs).                                       *)
(***************************************************************************)
RECURSIVE ResolveFromEndOnly(_, _, _)
\* The resolver with the write of the LoopStart's target left out.
ResolveFromEndOnly(stream, idx, stack) ==
    IF idx >= Len(stream)
    THEN [result |-> IF stack = <<>> THEN "Ok" ELSE "UnmatchedStart",
          instructions |-> stream]
    ELSE IF stream[idx + 1].op = "LoopStart"
    THEN ResolveFromEndOnly(stream, idx + 1, Append(stack, idx))
    ELSE IF stream[idx + 1].op = "LoopEnd"
    THEN IF stack = <<>>
         THEN [result |-> "UnmatchedEnd", instructions |-> stream]
         ELSE LET start_idx == stack[Len(stack)]
              IN  ResolveFromEndOnly(
                      [stream EXCEPT ![idx + 1] = LoopEnd(start_idx)],
                      idx + 1, SubSeq(stack, 1, Len(stack) - 1))
    ELSE ResolveFromEndOnly(stream, idx + 1, stack)

RECURSIVE ResolveFromAnyStack(_, _, _)
\* The resolver with the check of the stack after the loop left out.
ResolveFromAnyStack(stream, idx, stack) ==
    IF idx >= Len(stream)
    THEN [result |-> "Ok", instructions |-> stream]
    ELSE IF stream[idx + 1].op = "LoopStart"
    THEN ResolveFromAnyStack(stream, idx + 1, Append(stack, idx))
    ELSE IF stream[idx + 1].op = "LoopEnd"
    THEN IF stack = <<>>
         THEN [result |-> "UnmatchedEnd", instructions |-> stream]
         ELSE LET start_idx == stack[Len(stack)]
              IN  ResolveFromAnyStack(
                      [stream EXCEPT ![start_idx + 1] = LoopStart(idx),
                                     ![idx + 1] = LoopEnd(start_idx)],
                      idx + 1, SubSeq(stack, 1, Len(stack) - 1))
    ELSE ResolveFromAnyStack(stream, idx + 1, stack)

RECURSIVE ResolveFromUnsetOnly(_, _, _)
\* The resolver writing a target only where the instruction holds 0.
ResolveFromUnsetOnly(stream, idx, stack) ==
    IF idx >= Len(stream)
    THEN [result |-> IF stack = <<>> THEN "Ok" ELSE "UnmatchedStart",
          instructions |-> stream]
    ELSE IF stream[idx + 1].op = "LoopStart"
    THEN ResolveFromUnsetOnly(stream, idx + 1, Append(stack, idx))
    ELSE IF stream[idx + 1].op = "LoopEnd"
    THEN IF stack = <<>>
         THEN [result |-> "UnmatchedEnd", instructions |-> stream]
         ELSE LET start_idx == stack[Len(stack)]
              IN  ResolveFromUnsetOnly(
                      [stream EXCEPT
                          ![start_idx + 1] = IF @.arg = 0 THEN LoopStart(idx) ELSE @,
                          ![idx + 1] = IF @.arg = 0 THEN LoopEnd(start_idx) ELSE @],
                      idx + 1, SubSeq(stack, 1, Len(stack) - 1))
    ELSE ResolveFromUnsetOnly(stream, idx + 1, stack)

RECURSIVE ResolveFrom(_, _, _)
\* The for loop of insert_bf_jump_points from index idx on, with the stack
\* of open loop starts (top last).
ResolveFrom(stream, idx, stack) ==
    IF idx >= Len(stream)
    THEN [result |-> IF stack = <<>> THEN "Ok" ELSE "UnmatchedStart",
          instructions |-> stream]
    ELSE IF stream[idx + 1].op = "LoopStart"
    THEN ResolveFrom(stream, idx + 1, Append(stack, idx))
    ELSE IF stream[idx + 1].op = "LoopEnd"
    THEN IF stack = <<>>
         THEN [result |-> "UnmatchedEnd", instructions |-> stream]
         ELSE LET start_idx == stack[Len(stack)]
              IN  ResolveFrom(
                      [stream EXCEPT ![start_idx + 1] = LoopStart(idx),
                                     ![idx + 1] = LoopEnd(start_idx)],
                      idx + 1, SubSeq(stack, 1, Len(stack) - 1))
    ELSE ResolveFrom(stream, idx + 1, stack)

insert_bf_jump_points(stream) == ResolveFrom(stream, 0, <<>>)

\* The resolver optimize calls; the source holds no other resolver than
\* insert_bf_jump_points.
update_jump_points(stream) == insert_bf_jump_points(stream)

\* InstructionStream::new
new(instrs) ==
    LET r == insert_bf_jump_points(instrs)
    IN  [result |-> r.result, instructions |-> r.instructions,
         recommended_array_size |-> MIN_ARRAY_SIZE]

\* InstructionStream::from_code
from_code(text) == new(instructions_from_text(text))

(***************************************************************************)
(* The optimizer (compile/optimize.rs).                                    *)
(***************************************************************************)
\* FoldResult
CantFold == [kind |-> "CantFold", instr |-> None]
NoOp == [kind |-> "NoOp", instr |-> None]
Folded(instr) == [kind |-> "Folded", instr |-> Some(instr)]

\* FoldResult::try_from_or_noop with B = NonZero: a zero value is no
\* NonZero, and gives NoOp.
try_from_or_noop(value, variant) ==
    IF value # 0 THEN Folded([op |-> variant, arg |-> value]) ELSE NoOp

\* The net of an add and a sub, given as an Inc whichever is larger.
net_cell_as_added(add, sub) ==
    IF sub > add
    THEN try_from_or_noop(sub - add, "Inc")
    ELSE try_from_or_noop(add - sub, "Inc")

\* fold_with's arms for Inc and Dec: the net of an add and a sub
net_cell(add, sub) ==
    IF sub > add
    THEN try_from_or_noop(sub - add, "Dec")
    ELSE try_from_or_noop(add - sub, "Inc")

\* The net of two pointer moves, given as an IncPtr whichever is larger.
net_ptr_as_added(add, sub) ==
    IF sub > add
    THEN try_from_or_noop(sub - add, "IncPtr")
    ELSE try_from_or_noop(add - sub, "IncPtr")

\* fold_with's arms for IncPtr and DecPtr: the net of an add and a sub
net_ptr(add, sub) ==
    IF sub > add
    THEN try_from_or_noop(sub - add, "DecPtr")
    ELSE try_from_or_noop(add - sub, "IncPtr")

\* The sum of two pointer moves with wrapping_add in the place of
\* checked_add.
sum_ptr_wrapping(amount1, amount2, variant) ==
    LET sum == IF amount1 <= U32_MAX - amount2
               THEN amount1 + amount2
               ELSE amount1 - (U32_MAX - amount2) - 1
    IN  IF sum # 0
        THEN Folded([op |-> variant, arg |-> sum])
        ELSE CantFold

\* fold_with's arms for two IncPtr or two DecPtr: checked_add, then
\* NonZeroU32::new
sum_ptr(amount1, amount2, variant) ==
    LET sum == checked_add(amount1, amount2)
    IN  IF sum # None /\ sum[1] # 0
        THEN Folded([op |-> variant, arg |-> sum[1]])
        ELSE CantFold

\* fold_with keeping the earlier instruction where a Set follows.
fold_with_dead_set(self, next, t) ==
    CASE self.op = "Inc" /\ next.op = "Inc" ->
            try_from_or_noop(wrapping_add(self.arg, next.arg, t), "Inc")
      [] self.op = "Dec" /\ next.op = "Dec" ->
            try_from_or_noop(wrapping_add(self.arg, next.arg, t), "Dec")
      [] self.op = "Dec" /\ next.op = "Inc" -> net_cell(next.arg, self.arg)
      [] self.op = "Inc" /\ next.op = "Dec" -> net_cell(self.arg, next.arg)
      [] self.op = "IncPtr" /\ next.op = "IncPtr" ->
            sum_ptr(self.arg, next.arg, "IncPtr")
      [] self.op = "DecPtr" /\ next.op = "DecPtr" ->
            sum_ptr(self.arg, next.arg, "DecPtr")
      [] self.op = "DecPtr" /\ next.op = "IncPtr" -> net_ptr(next.arg, self.arg)
      [] self.op = "IncPtr" /\ next.op = "DecPtr" -> net_ptr(self.arg, next.arg)
      [] self.op \in {"Inc", "Dec", "Set"} /\ next.op = "Set" -> Folded(self)
      [] self.op = "Set" /\ next.op = "Inc" ->
            Folded(Set(wrapping_add(self.arg, next.arg, t)))
      [] self.op = "Set" /\ next.op = "Dec" ->
            Folded(Set(wrapping_sub(self.arg, next.arg, t)))
      [] OTHER -> CantFold

\* Instruction::fold_with
fold_with(self, next, t) ==
    CASE self.op = "Inc" /\ next.op = "Inc" ->
            try_from_or_noop(wrapping_add(self.arg, next.arg, t), "Inc")
      [] self.op = "Dec" /\ next.op = "Dec" ->
            try_from_or_noop(wrapping_add(self.arg, next.arg, t), "Dec")
      [] self.op = "Dec" /\ next.op = "Inc" -> net_cell(next.arg, self.arg)
      [] self.op = "Inc" /\ next.op = "Dec" -> net_cell(self.arg, next.arg)
      [] self.op = "IncPtr" /\ next.op = "IncPtr" ->
            sum_ptr(self.arg, next.arg, "IncPtr")
      [] self.op = "DecPtr" /\ next.op = "DecPtr" ->
            sum_ptr(self.arg, next.arg, "DecPtr")
      [] self.op = "DecPtr" /\ next.op = "IncPtr" -> net_ptr(next.arg, self.arg)
      [] self.op = "IncPtr" /\ next.op = "DecPtr" -> net_ptr(self.arg, next.arg)
      [] self.op \in {"Inc", "Dec", "Set"} /\ next.op = "Set" -> Folded(next)
      [] self.op = "Set" /\ next.op = "Inc" ->
            Folded(Set(wrapping_add(self.arg, next.arg, t)))
      [] self.op = "Set" /\ next.op = "Dec" ->
            Folded(Set(wrapping_sub(self.arg, next.arg, t)))
      [] OTHER -> CantFold

\* The inner loop of fold_like with the NoOp arm stepping one instruction
\* instead of two.
RECURSIVE FoldRunRereads(_, _, _, _)
FoldRunRereads(stream, current, read_idx, t) ==
    IF read_idx + 1 >= Len(stream)
    THEN [written |-> TRUE, current |-> current, read_idx |-> read_idx + 1]
    ELSE LET r == fold_with(current, stream[read_idx + 2], t)
         IN  CASE r.kind = "Folded" ->
                    FoldRunRereads(stream, r.instr[1], read_idx + 1, t)
               [] r.kind = "NoOp" ->
                    [written |-> FALSE, current |-> current, read_idx |-> read_idx + 1]
               [] r.kind = "CantFold" ->
                    [written |-> TRUE, current |-> current, read_idx |-> read_idx + 1]

RECURSIVE FoldRun(_, _, _, _)
\* The 'fold loop of fold_like: current is folded with the instructions that
\* follow read_idx.  written is FALSE when the run folded to nothing
\* (continue 'stream), and read_idx is where 'stream goes on.
FoldRun(stream, current, read_idx, t) ==
    IF read_idx + 1 >= Len(stream)
    THEN [written |-> TRUE, current |-> current, read_idx |-> read_idx + 1]
    ELSE LET r == fold_with(current, stream[read_idx + 2], t)
         IN  CASE r.kind = "Folded" -> FoldRun(stream, r.instr[1], read_idx + 1, t)
               [] r.kind = "NoOp" ->
                    [written |-> FALSE, current |-> current, read_idx |-> read_idx + 2]
               [] r.kind = "CantFold" ->
                    [written |-> TRUE, current |-> current, read_idx |-> read_idx + 1]

RECURSIVE FoldFrom(_, _, _, _)
\* The 'stream loop of fold_like, in place: the kept instructions are
\* written to the prefix of the buffer, which is truncated at the end.
FoldFrom(stream, read_idx, write_idx, t) ==
    IF read_idx >= Len(stream)
    THEN SubSeq(stream, 1, write_idx)
    ELSE LET run == FoldRun(stream, stream[read_idx + 1], read_idx, t)
         IN  IF run.written
             THEN FoldFrom([stream EXCEPT ![write_idx + 1] = run.current],
                           run.read_idx, write_idx + 1, t)
             ELSE FoldFrom(stream, run.read_idx, write_idx, t)

\* InstructionStream::fold_like
fold_like(stream, t) == FoldFrom(stream, 0, 0, t)

\* The slice pattern of recognize_zeroings without its amount test.
IsZeroingAnyAmount(stream, read_idx) ==
    /\ read_idx + 3 <= Len(stream)
    /\ stream[read_idx + 1].op = "LoopStart"
    /\ stream[read_idx + 2].op \in {"Dec", "Inc"}
    /\ stream[read_idx + 3].op = "LoopEnd"

\* The slice pattern of recognize_zeroings without its test of the LoopEnd.
IsZeroingUnclosed(stream, read_idx) ==
    /\ read_idx + 3 <= Len(stream)
    /\ stream[read_idx + 1].op = "LoopStart"
    /\ stream[read_idx + 2].op \in {"Dec", "Inc"}
    /\ stream[read_idx + 2].arg = ONE_NON_ZERO

\* The slice pattern of recognize_zeroings at read_idx, with its amount test.
IsZeroing(stream, read_idx) ==
    /\ read_idx + 3 <= Len(stream)
    /\ stream[read_idx + 1].op = "LoopStart"
    /\ stream[read_idx + 2].op \in {"Dec", "Inc"}
    /\ stream[read_idx + 3].op = "LoopEnd"
    /\ stream[read_idx + 2].arg = ONE_NON_ZERO

RECURSIVE ZeroingsFrom(_, _, _)
\* The 'stream loop of recognize_zeroings, in place.
ZeroingsFrom(stream, read_idx, write_idx) ==
    IF read_idx >= Len(stream)
    THEN SubSeq(stream, 1, write_idx)
    ELSE IF IsZeroing(stream, read_idx)
    THEN ZeroingsFrom([stream EXCEPT ![write_idx + 1] = Set(ZERO)],
                      read_idx + 3, write_idx + 1)
    ELSE ZeroingsFrom([stream EXCEPT ![write_idx + 1] = stream[read_idx + 1]],
                      read_idx + 1, write_idx + 1)

\* InstructionStream::recognize_zeroings
recognize_zeroings(stream) == ZeroingsFrom(stream, 0, 0)

RECURSIVE SumPtrMoves(_)
\* The sum with the DecPtr amounts counted as well.
SumPtrMoves(stream) ==
    IF stream = <<>> THEN 0
    ELSE (IF Head(stream).op \in {"IncPtr", "DecPtr"} THEN Head(stream).arg ELSE 0)
         + SumPtrMoves(Tail(stream))

RECURSIVE SumIncPtr(_)
\* the filter_map(..).sum() of optimize
SumIncPtr(stream) ==
    IF stream = <<>> THEN 0
    ELSE (IF Head(stream).op = "IncPtr" THEN Head(stream).arg ELSE 0)
         + SumIncPtr(Tail(stream))

Max(a, b) == IF a >= b THEN a ELSE b

\* The three passes of optimize that precede jump resolution.
Passes(instrs, t) == fold_like(recognize_zeroings(fold_like(instrs, t)), t)

\* InstructionStream::optimize on a stream holding instrs and size: on Err
\* the passes have been applied and the size is left as it was.
optimize(instrs, size, t) ==
    LET r == update_jump_points(Passes(instrs, t))
    IN  [result |-> r.result, instructions |-> r.instructions,
         recommended_array_size |->
             IF r.result = "Ok"
             THEN Max(SumIncPtr(r.instructions), MIN_ARRAY_SIZE)
             ELSE size]

\* InstructionStream::optimized_from_code
optimized_from_code(text, t) ==
    optimize(instructions_from_text(text), MIN_ARRAY_SIZE, t)

(***************************************************************************)
(* The programs and the builder settings explored.                         *)
(***************************************************************************)
\* Every text of at most MaxCodeLen command bytes.
ShortTexts == UNION {[1..n -> CommandBytes] : n \in 0..MaxCodeLen}

\* Longer programs: the loop of test.rs's full_pipeline, and programs whose
\* folds cancel pointer moves, feed a zeroing loop or leave one behind.
LongerTexts ==
    { <<"+", "[", ">", "+", "]">>,
      <<">", "+", "-", "<", ".">>,
      <<"+", "[", "-", "]", "+", ".">>,
      <<"+", "[", ">", "<", "-", "]", ".">>,
      <<"[", "+", ">", "+", "-", "<", "]">>,
      <<",", "[", ".", "-", "]">>,
      <<"[", "-", "-", "]">>,
      <<"-", "-", "+", ".">>,
      <<"+", ">", "+", "-", "<", "-">>,
      <<"[", "-", "]", "]">>,
      <<"[", "[", "-", "]", "+", "]">>,
      <<"[", "[", "-", "]">>,
      <<"]", "[", "+", "]", "[">>,
      <<"+", "+", "+", "+", "[", ">", "+", "+", "+", "+", "[", ">", "+", "+",
        "+", "+", "<", "-", "]", "<", "-", "]", ">", ">", "+", ".">> }

\* u8 cells run every short text; u16 cells run the texts one byte shorter.
Texts(t) ==
    IF t = 8 THEN ShortTexts \cup LongerTexts
    ELSE {text \in ShortTexts : Len(text) < MaxCodeLen} \cup LongerTexts

\* An item of the input source: a byte, or an I/O error.
InputByte(b) == <<"Ok", b>>
InputError == <<"Err", 0>>
Inputs == {<<>>, <<InputByte(2)>>, <<InputError>>}

HasOp(stream, op) == \E i \in 1..Len(stream) : stream[i].op = op

\* The Builder settings: an unlimited run is explored for u8 cells only,
\* where every loop closes its cycle within 2^8 values of a cell; an input
\* source matters only to a stream that reads.
Configs(stream, t) ==
    { [data_array_size |-> size, initial_data_pointer |-> start, fill |-> fill,
       instruction_limit |-> limit, input |-> in] :
        size \in 0..MaxArrayLen, start \in 0..MaxArrayLen, fill \in {0, 1},
        limit \in (IF t = 8 THEN {None} ELSE {}) \cup {Some(n) : n \in 0..MaxLimit},
        in \in (IF HasOp(stream, "Read") THEN Inputs ELSE {<<>>}) }

ValidConfigs(stream, t) ==
    {c \in Configs(stream, t) : c.initial_data_pointer <= c.data_array_size}

(***************************************************************************)
(* The pipeline: compile, build an interpreter, run; then, as test.rs's    *)
(* optimization_fuzzer does, optimize and run again with the same          *)
(* settings.                                                               *)
(***************************************************************************)
Init ==
    /\ T \in CellTypes
    /\ code \in Texts(T)
    /\ instructions = <<>>
    /\ recommended_array_size = 0
    /\ compiled = "None"
    /\ optimized = FALSE
    /\ data = <<>>
    /\ ptr = 0
    /\ instructions_left = None
    /\ input = <<>>
    /\ output = <<>>
    /\ instruction_pointer = 0
    /\ result = "Pending"
    /\ config = None
    /\ unoptimized = None
    /\ executed = 0
    /\ phase = "source"

interpreter == <<data, ptr, instructions_left, input, output,
                 instruction_pointer, result, executed>>
compiler == <<instructions, recommended_array_size, compiled, optimized>>

\* A compile step has returned r.
Compiled(r) ==
    /\ compiled' = r.result
    /\ instructions' = r.instructions
    /\ recommended_array_size' = r.recommended_array_size
    /\ phase' = IF r.result = "Ok" THEN "compiled" ELSE "failed"

\* InstructionStream::from_code(code)
FromCode ==
    /\ phase = "source"
    /\ Compiled(from_code(code))
    /\ UNCHANGED <<code, T, optimized, interpreter, config, unoptimized>>

\* InstructionStream::optimized_from_code(code), as bin/main.rs calls it
OptimizedFromCode ==
    /\ phase = "source"
    /\ Compiled(optimized_from_code(code, T))
    /\ optimized' = TRUE
    /\ UNCHANGED <<code, T, interpreter, config, unoptimized>>

\* The fuzzer keeps the unoptimized run's outcome and optimizes the stream
\* (stream.optimize() in run_output).
Optimize ==
    /\ phase = "returned"
    /\ ~optimized
    /\ unoptimized' = Some([result |-> result, output |-> output, data |-> data,
                            ptr |-> ptr, instructions_left |-> instructions_left,
                            executed |-> executed])
    /\ Compiled(optimize(instructions, recommended_array_size, T))
    /\ optimized' = TRUE
    /\ UNCHANGED <<code, T, interpreter, config>>

\* Builder::build with the settings c
BuildWith(c) ==
    /\ config' = Some(c)
    /\ data' = [i \in 1..c.data_array_size |-> c.fill]
    /\ ptr' = c.initial_data_pointer
    /\ instructions_left' = c.instruction_limit
    /\ input' = c.input
    /\ output' = <<>>
    /\ instruction_pointer' = 0
    /\ result' = "Pending"
    /\ executed' = 0
    /\ phase' = "built"
    /\ UNCHANGED <<code, T, compiler, unoptimized>>

\* The first run's interpreter: any settings.  A stream that came from
\* optimized_from_code is compiled only.
Build ==
    /\ phase = "compiled"
    /\ ~optimized
    /\ \E c \in ValidConfigs(instructions, T) : BuildWith(c)

\* The second run's interpreter: the settings of the first.
Rebuild ==
    /\ phase = "compiled"
    /\ optimized
    /\ unoptimized # None
    /\ BuildWith(config[1])

(***************************************************************************)
(* Interpreter::run (interpret/mod.rs).                                    *)
(***************************************************************************)
\* cur_unchecked
cur_unchecked == data[ptr + 1]

\* map_current writing every cell of the data array
map_current_all(v) == [i \in 1..Len(data) |-> v]

\* map_current: the data array with the current cell replaced
map_current(v) == [data EXCEPT ![ptr + 1] = v]

\* inc_ptr_by that leaves the pointer advanced when it fails
inc_ptr_by_no_rollback(v) ==
    IF ptr + v >= Len(data)
    THEN [ptr |-> ptr + v, result |-> "Overflow"]
    ELSE [ptr |-> ptr + v, result |-> "Ok"]

\* inc_ptr_by: the pointer after the call, and what it returns
inc_ptr_by(v) ==
    IF ptr + v >= Len(data)
    THEN [ptr |-> (ptr + v) - v, result |-> "Overflow"]
    ELSE [ptr |-> ptr + v, result |-> "Ok"]

\* dec_ptr_by
dec_ptr_by(v) ==
    IF ptr < v
    THEN [ptr |-> ptr, result |-> "Underflow"]
    ELSE [ptr |-> ptr - v, result |-> "Ok"]

\* read with the end of the input taken for an error
read_eof_as_error ==
    IF input # <<>> /\ Head(input)[1] = "Ok"
    THEN [result |-> "Ok", byte |-> Head(input)[2], input |-> Tail(input)]
    ELSE [result |-> "InputIo", byte |-> 0,
          input |-> IF input = <<>> THEN input ELSE Tail(input)]

\* read: the byte, or the error, and the input left
read ==
    IF input = <<>> THEN [result |-> "Ok", byte |-> 0, input |-> input]
    ELSE IF Head(input)[1] = "Ok"
    THEN [result |-> "Ok", byte |-> Head(input)[2], input |-> Tail(input)]
    ELSE [result |-> "InputIo", byte |-> 0, input |-> Tail(input)]

\* The entry of run with the check of the starting pointer off by one.
RunEnterPastEnd ==
    /\ phase = "built"
    /\ instruction_pointer' = 0
    /\ IF ptr > Len(data)
       THEN result' = "InitOverflow" /\ phase' = "returned"
       ELSE result' = "Running" /\ phase' = "running"
    /\ UNCHANGED <<code, T, compiler, data, ptr, instructions_left, input,
                   output, config, unoptimized, executed>>

\* The entry of run: the SAFETY check of the starting pointer.
RunEnter ==
    /\ phase = "built"
    /\ instruction_pointer' = 0
    /\ IF ptr >= Len(data)
       THEN result' = "InitOverflow" /\ phase' = "returned"
       ELSE result' = "Running" /\ phase' = "running"
    /\ UNCHANGED <<code, T, compiler, data, ptr, instructions_left, input,
                   output, config, unoptimized, executed>>

\* The while condition fails: run returns Ok(()).
Halt ==
    /\ phase = "running"
    /\ instruction_pointer >= Len(instructions)
    /\ result' = "Ok"
    /\ phase' = "returned"
    /\ UNCHANGED <<code, T, compiler, data, ptr, instructions_left, input,
                   output, instruction_pointer, config, unoptimized, executed>>

\* The limit check with continue in the place of its return: the loop spins
\* at its head.
LimitReachedSpins ==
    /\ phase = "running"
    /\ instruction_pointer < Len(instructions)
    /\ instructions_left = Some(0)
    /\ UNCHANGED vars

\* The limit check at the head of the loop body.
LimitReached ==
    /\ phase = "running"
    /\ instruction_pointer < Len(instructions)
    /\ instructions_left = Some(0)
    /\ result' = "NotEnoughInstructions"
    /\ phase' = "returned"
    /\ UNCHANGED <<code, T, compiler, data, ptr, instructions_left, input,
                   output, instruction_pointer, config, unoptimized, executed>>

\* The instruction the loop body is about to match on.
Current == instructions[instruction_pointer + 1]

\* The loop body gets past the limit check with an instruction of kind op.
Executing(op) ==
    /\ phase = "running"
    /\ instruction_pointer < Len(instructions)
    /\ instructions_left # Some(0)
    /\ Current.op = op

\* The tail of the loop body without the limit's checked_sub(1): the limit
\* and its count stay as they were.
FinishKeepsLimit(ip) ==
    /\ instruction_pointer' = ip + 1
    /\ UNCHANGED <<instructions_left, executed>>
    /\ result' = "Running" /\ phase' = "running"

\* The tail of the loop body, with the instruction pointer the match left:
\* instruction_pointer += 1, and the limit's checked_sub(1).  executed
\* counts the instructions of a limited run that got here (an unlimited
\* loop would count without bound).
Finish(ip) ==
    /\ instruction_pointer' = ip + 1
    /\ executed' = IF instructions_left = None THEN executed ELSE executed + 1
    /\ IF instructions_left = None
       THEN /\ instructions_left' = None
            /\ result' = "Running" /\ phase' = "running"
       ELSE IF instructions_left[1] >= 1
       THEN /\ instructions_left' = Some(instructions_left[1] - 1)
            /\ result' = "Running" /\ phase' = "running"
       ELSE /\ instructions_left' = instructions_left
            /\ result' = "NotEnoughInstructions" /\ phase' = "returned"

\* The ? of the loop body: run returns the error there and then.
Fail(error) ==
    /\ result' = error
    /\ phase' = "returned"
    /\ UNCHANGED <<instruction_pointer, instructions_left, executed>>

ExecSet ==
    /\ Executing("Set")
    /\ data' = map_current(Current.arg)
    /\ Finish(instruction_pointer)
    /\ UNCHANGED <<code, T, compiler, ptr, input, output, config, unoptimized>>

ExecInc ==
    /\ Executing("Inc")
    /\ data' = map_current(wrapping_add(cur_unchecked, Current.arg, T))
    /\ Finish(instruction_pointer)
    /\ UNCHANGED <<code, T, compiler, ptr, input, output, config, unoptimized>>

ExecDec ==
    /\ Executing("Dec")
    /\ data' = map_current(wrapping_sub(cur_unchecked, Current.arg, T))
    /\ Finish(instruction_pointer)
    /\ UNCHANGED <<code, T, compiler, ptr, input, output, config, unoptimized>>

ExecIncPtr ==
    /\ Executing("IncPtr")
    /\ LET r == inc_ptr_by(Current.arg)
       IN  /\ ptr' = r.ptr
           /\ IF r.result = "Ok" THEN Finish(instruction_pointer) ELSE Fail(r.result)
    /\ UNCHANGED <<code, T, compiler, data, input, output, config, unoptimized>>

ExecDecPtr ==
    /\ Executing("DecPtr")
    /\ LET r == dec_ptr_by(Current.arg)
       IN  /\ ptr' = r.ptr
           /\ IF r.result = "Ok" THEN Finish(instruction_pointer) ELSE Fail(r.result)
    /\ UNCHANGED <<code, T, compiler, data, input, output, config, unoptimized>>

\* write: the sink of the model is a Vec, whose write_all never fails.  A
\* limited run writes at most its limit; an unlimited run is followed up to
\* MaxOutput bytes.
ExecWrite ==
    /\ Executing("Write")
    /\ Len(output) < (IF instructions_left = None THEN MaxOutput ELSE MaxLimit)
    /\ output' = Append(output, truncate_to_byte(cur_unchecked))
    /\ Finish(instruction_pointer)
    /\ UNCHANGED <<code, T, compiler, data, ptr, input, config, unoptimized>>

ExecRead ==
    /\ Executing("Read")
    /\ LET r == read
       IN  /\ input' = r.input
           /\ IF r.result = "Ok"
              THEN data' = map_current(r.byte) /\ Finish(instruction_pointer)
              ELSE data' = data /\ Fail(r.result)
    /\ UNCHANGED <<code, T, compiler, ptr, output, config, unoptimized>>

\* The LoopStart arm with the instruction pointer left on the partner.
ExecLoopStartToPartner ==
    /\ Executing("LoopStart")
    /\ Finish(IF cur_unchecked = ZERO THEN Current.arg - 1 ELSE instruction_pointer)
    /\ UNCHANGED <<code, T, compiler, data, ptr, input, output, config, unoptimized>>

ExecLoopStart ==
    /\ Executing("LoopStart")
    /\ Finish(IF cur_unchecked = ZERO THEN Current.arg ELSE instruction_pointer)
    /\ UNCHANGED <<code, T, compiler, data, ptr, input, output, config, unoptimized>>

\* The LoopEnd arm without its jump back.
ExecLoopEndFallsThrough ==
    /\ Executing("LoopEnd")
    /\ Finish(instruction_pointer)
    /\ UNCHANGED <<code, T, compiler, data, ptr, input, output, config, unoptimized>>

ExecLoopEnd ==
    /\ Executing("LoopEnd")
    /\ Finish(IF cur_unchecked # ZERO THEN Current.arg ELSE instruction_pointer)
    /\ UNCHANGED <<code, T, compiler, data, ptr, input, output, config, unoptimized>>

Exec ==
    \/ ExecSet \/ ExecInc \/ ExecDec \/ ExecIncPtr \/ ExecDecPtr
    \/ ExecWrite \/ ExecRead \/ ExecLoopStart \/ ExecLoopEnd

Run == RunEnter \/ Halt \/ LimitReached \/ Exec

Next == FromCode \/ OptimizedFromCode \/ Optimize \/ Build \/ Rebuild \/ Run

Spec == Init /\ [][Next]_vars

(***************************************************************************)
(* Properties.                                                             *)
(***************************************************************************)
\* The second, optimized run of the fuzzer has returned.
BothReturned == phase = "returned" /\ unoptimized # None

\* The instructions of the program text, before resolution.
SourceInstructions == instructions_from_text(code)

PtrMoves(stream) ==
    Cardinality({i \in 1..Len(stream) : stream[i].op \in {"IncPtr", "DecPtr"}})

\* (a) the same output and the same outcome
SameOutcome == unoptimized[1].result = result /\ unoptimized[1].output = output

\* (b) the unoptimized run fails on a pointer move, the optimized run, which
\* holds fewer pointer moves, succeeds
CancelledExcursion ==
    /\ unoptimized[1].result \in {"Overflow", "Underflow"}
    /\ result = "Ok"
    /\ PtrMoves(instructions) < PtrMoves(SourceInstructions)

\* (c) the unoptimized run exhausts the limit, the optimized run succeeds
OnlyUnoptimizedExhausts ==
    unoptimized[1].result = "NotEnoughInstructions" /\ result = "Ok"

BothFail == unoptimized[1].result # "Ok" /\ result # "Ok"

\* C1 as the specification states it: the two runs agree, or differ by (b)
\* or (c), and never fail with different error kinds.
C1_AsClaimed ==
    BothReturned =>
        /\ SameOutcome \/ CancelledExcursion \/ OnlyUnoptimizedExhausts
        /\ BothFail => unoptimized[1].result = result

\* C1, amended: the optimized and the unoptimized run of a program, with the
\* same settings, (a) give the same output and outcome, or (b) the
\* unoptimized run fails with Overflow or Underflow on a pointer move the
\* optimizer cancelled and the optimized run succeeds, or (c) the unoptimized
\* run fails with NotEnoughInstructions and the optimized run succeeds, or
\* (d) both fail, with error kinds and outputs that need not agree.
C1_Equivalence ==
    BothReturned =>
        SameOutcome \/ CancelledExcursion \/ OnlyUnoptimizedExhausts \/ BothFail

\* C1's case: a cancelled excursion lets the optimized run succeed and write.
C1_Witness ==
    /\ BothReturned
    /\ unoptimized[1].result = "Overflow"
    /\ result = "Ok"
    /\ output # <<>>

\* The runs were limited: executed counts their instructions.
Limited == config # None /\ config[1].instruction_limit # None

Opens(stream, from, to) ==
    Cardinality({i \in from..to : stream[i + 1].op = "LoopStart"})
Closes(stream, from, to) ==
    Cardinality({i \in from..to : stream[i + 1].op = "LoopEnd"})

\* The loop instructions at indices from..to are balanced and nest.
Nested(stream, from, to) ==
    /\ Opens(stream, from, to) = Closes(stream, from, to)
    /\ \A n \in from..to : Closes(stream, from, n) <= Opens(stream, from, n)

\* Every LoopStart holds the index of its matching LoopEnd, which holds the
\* index of the LoopStart, and what lies between them nests.
FullyResolved(stream) ==
    \A i \in 0..(Len(stream) - 1) :
        /\ stream[i + 1].op = "LoopStart" =>
               LET j == stream[i + 1].arg
               IN  /\ i < j /\ j < Len(stream)
                   /\ stream[j + 1] = LoopEnd(i)
                   /\ Nested(stream, i + 1, j - 1)
        /\ stream[i + 1].op = "LoopEnd" =>
               LET k == stream[i + 1].arg
               IN  k < i /\ stream[k + 1] = LoopStart(i)

\* C3: whenever new, from_code, optimized_from_code or optimize has returned
\* Ok, every LoopStart and LoopEnd of the stream holds the index of its
\* properly nested partner, at the positions the optimizer left them.
C3_Resolved ==
    phase = "compiled" /\ compiled = "Ok" => FullyResolved(instructions)

\* C3's case: optimize has moved a loop (the stream is shorter than the
\* program) and the loop is still there.
C3_Witness ==
    /\ optimized
    /\ compiled = "Ok"
    /\ Len(instructions) < Len(SourceInstructions)
    /\ HasOp(instructions, "LoopStart")
    /\ \E i \in 1..Len(instructions) :
           instructions[i].op = "LoopStart" /\ SourceInstructions[i].op # "LoopStart"

\* What the resolver was last run on.
ResolverInput ==
    IF optimized THEN Passes(SourceInstructions, T) ELSE SourceInstructions

\* The outcome the balance of the loop instructions calls for.
Balance(stream) ==
    IF \E n \in 0..(Len(stream) - 1) : Closes(stream, 0, n) > Opens(stream, 0, n)
    THEN "UnmatchedEnd"
    ELSE IF Opens(stream, 0, Len(stream) - 1) > Closes(stream, 0, Len(stream) - 1)
    THEN "UnmatchedStart"
    ELSE "Ok"

\* C4: jump resolution fails with UnmatchedEnd iff some LoopEnd is reached
\* with no LoopStart open, otherwise with UnmatchedStart iff a LoopStart is
\* still open at the end, and otherwise returns Ok.
C4_Unbalanced ==
    phase \in {"compiled", "failed"} => compiled = Balance(ResolverInput)

\* C4's case: an unmatched end comes first and wins over the unmatched
\* start that follows it.
C4_Witness ==
    /\ compiled = "UnmatchedEnd"
    /\ SourceInstructions = <<LoopEnd(0), LoopStart(0)>>

(***************************************************************************)
(* The interpreter's errors and its limit.                                 *)
(***************************************************************************)
\* C5: an IncPtr(a) executed with ptr + a >= the array length makes run fail
\* with Overflow, a DecPtr(a) executed with a > ptr makes it fail with
\* Underflow, and the failing instruction leaves the pointer, the cells and
\* the output as they were.
C5_PointerErrors ==
    [][ /\ Executing("IncPtr") /\ ptr + Current.arg >= Len(data) =>
               /\ result' = "Overflow" /\ phase' = "returned"
               /\ ptr' = ptr /\ data' = data /\ output' = output
        /\ Executing("DecPtr") /\ Current.arg > ptr =>
               /\ result' = "Underflow" /\ phase' = "returned"
               /\ ptr' = ptr /\ data' = data /\ output' = output
        /\ result' = "Overflow" /\ result = "Running" =>
               Executing("IncPtr") /\ ptr + Current.arg >= Len(data)
        /\ result' = "Underflow" /\ result = "Running" =>
               Executing("DecPtr") /\ Current.arg > ptr
      ]_vars

\* C5's case: both errors, the unoptimized run's Overflow and the optimized
\* run's Underflow at position 0.
C5_Witness ==
    /\ BothReturned
    /\ unoptimized[1].result = "Overflow"
    /\ result = "Underflow"
    /\ ptr = 0

\* The interpreter as Builder::build made it.
AsBuilt ==
    /\ data = [i \in 1..config[1].data_array_size |-> config[1].fill]
    /\ ptr = config[1].initial_data_pointer
    /\ instructions_left = config[1].instruction_limit
    /\ input = config[1].input
    /\ output = <<>>
    /\ executed = 0

C7_Limit ==
    [][ Limited /\ phase = "running" =>
          LET N == config[1].instruction_limit[1]
          IN  /\ executed + instructions_left[1] = N
              /\ executed' <= N
              /\ Exec => instructions_left[1] > 0
              /\ Exec /\ executed' = executed + 1 =>
                     instructions_left' = Some(instructions_left[1] - 1)
              /\ Exec /\ result' \in {"Running", "Ok"} => executed' = executed + 1
              /\ instruction_pointer < Len(instructions) /\ instructions_left = Some(0) =>
                     result' = "NotEnoughInstructions" /\ executed' = N
              /\ result' = "NotEnoughInstructions" =>
                     /\ instruction_pointer < Len(instructions)
                     /\ instructions_left = Some(0)
                     /\ executed = N
              /\ instruction_pointer >= Len(instructions) => result' = "Ok"
      ]_vars

\* C7's case: "+[]" stopped by the limit after exactly N instructions.
C7_Witness ==
    /\ code = <<"+", "[", "]">>
    /\ ~optimized
    /\ result = "NotEnoughInstructions"
    /\ executed = MaxLimit
    /\ instructions_left = Some(0)

(***************************************************************************)
(* Termination.  run occupies its thread until it returns, so the loop     *)
(* keeps taking steps: weak fairness of Run.                               *)
(***************************************************************************)
SpecLive == Init /\ [][Next]_vars /\ WF_vars(Run)

\* "+[]" run without a limit on an array the pointer starts in.
UnlimitedEmptyLoop ==
    /\ code = <<"+", "[", "]">>
    /\ config # None
    /\ config[1].instruction_limit = None
    /\ config[1].initial_data_pointer < config[1].data_array_size

\* C8: every limited run eventually returns, whatever the program; without a
\* limit that does not hold: "+[]" never returns, and always has a step to
\* take.
C8_Termination ==
    /\ [](phase = "running" /\ Limited => <>(phase = "returned"))
    /\ [](UnlimitedEmptyLoop => phase # "returned")
    /\ [](UnlimitedEmptyLoop /\ phase = "running" => ENABLED Exec)

\* C8's case: both runs of "+[]", which never leaves its loop, returned
\* because of the limit.
C8_Witness ==
    /\ code = <<"+", "[", "]">>
    /\ BothReturned
    /\ unoptimized[1].result = "NotEnoughInstructions"
    /\ result = "NotEnoughInstructions"
    /\ config[1].instruction_limit = Some(MaxLimit)

(***************************************************************************)
(* Zeroing loops.                                                          *)
(***************************************************************************)
\* Where the three-instruction shape LoopStart, Inc(1) | Dec(1), LoopEnd
\* begins in a stream.
ZeroingSites(stream) ==
    {i \in 0..(Len(stream) - 3) :
        /\ stream[i + 1].op = "LoopStart"
        /\ stream[i + 2] \in {Inc(1), Dec(1)}
        /\ stream[i + 3].op = "LoopEnd"}

SetZeros(stream) == {i \in 0..(Len(stream) - 1) : stream[i + 1] = Set(0)}

\* C9 as stated: where the program has the shape, the optimized stream has
\* a Set(0).
C9_AsClaimed ==
    optimized /\ compiled = "Ok" /\ ZeroingSites(SourceInstructions) # {} =>
        SetZeros(instructions) # {}

\* C9: the zeroing pass of optimize replaces every occurrence of LoopStart,
\* Inc(1) | Dec(1), LoopEnd by one Set(0): each occurrence in the program
\* reaches the pass, which leaves one Set(0) for each, two instructions
\* fewer, and no occurrence behind; the fold pass that follows works on its
\* result; "[-]" and "[+]" alone become [Set(0)], of length 1.
C9_Zeroing ==
    optimized /\ phase \in {"compiled", "failed"} =>
        LET folded == fold_like(SourceInstructions, T)
            zeroed == recognize_zeroings(folded)
            sites == Cardinality(ZeroingSites(folded))
        IN  /\ Cardinality(ZeroingSites(SourceInstructions)) <= sites
            /\ Cardinality(SetZeros(zeroed)) = sites
            /\ Len(zeroed) = Len(folded) - 2 * sites
            /\ ZeroingSites(zeroed) = {}
            /\ Len(instructions) <= Len(zeroed)
            /\ code \in {<<"[", "-", "]">>, <<"[", "+", "]">>} =>
                   instructions = <<Set(0)>>
            /\ Len(SourceInstructions) = 3 /\ ZeroingSites(SourceInstructions) # {} =>
                   Len(instructions) = 1

\* C9's case: optimize has run on "[+]".
C9_Witness ==
    /\ code = <<"[", "+", "]">>
    /\ optimized
    /\ phase = "compiled"
    /\ instructions = <<Set(0)>>

\* The zeroing loops, run without a limit from every u8 value, and from the
\* u16 values a few steps away from 0.
ZeroingTexts == {<<"[", "-", "]">>, <<"[", "+", "]">>}

StartValues(text, t) ==
    IF t = 8 THEN 0..CellMax(t)
    ELSE IF text = <<"[", "-", "]">> THEN 0..MaxLimit
    ELSE {0} \cup ((Modulus(t) - MaxLimit)..CellMax(t))

InitZeroing ==
    /\ T \in CellTypes
    /\ code \in ZeroingTexts
    /\ instructions = <<>>
    /\ recommended_array_size = 0
    /\ compiled = "None"
    /\ optimized = FALSE
    /\ data = <<>>
    /\ ptr = 0
    /\ instructions_left = None
    /\ input = <<>>
    /\ output = <<>>
    /\ instruction_pointer = 0
    /\ result = "Pending"
    /\ config = None
    /\ unoptimized = None
    /\ executed = 0
    /\ phase = "source"

BuildZeroing ==
    /\ phase = "compiled"
    /\ ~optimized
    /\ \E start \in 0..(MaxArrayLen - 1), fill \in StartValues(code, T) :
           BuildWith([data_array_size |-> MaxArrayLen, initial_data_pointer |-> start,
                      fill |-> fill, instruction_limit |-> None, input |-> <<>>])

RunZeroing ==
    \/ RunEnter \/ Halt \/ ExecSet \/ ExecInc \/ ExecDec
    \/ ExecLoopStart \/ ExecLoopEnd

NextZeroing == FromCode \/ BuildZeroing \/ Optimize \/ Rebuild \/ RunZeroing

SpecZeroing == InitZeroing /\ [][NextZeroing]_vars /\ WF_vars(RunZeroing)

\* A run ended as Set(0) would have: the current cell 0, the other cells,
\* the pointer and the output untouched.
ZeroedOnly(run) ==
    /\ run.result = "Ok"
    /\ run.ptr = config[1].initial_data_pointer
    /\ run.data = [i \in 1..config[1].data_array_size |->
                      IF i = run.ptr + 1 THEN 0 ELSE config[1].fill]
    /\ run.output = <<>>

\* C10: run without a limit, the loops LoopStart, Dec(1), LoopEnd and
\* LoopStart, Inc(1), LoopEnd terminate from every starting value, with the
\* current cell 0 and nothing else changed, which is also what the Set(0)
\* that optimize puts in their place does.
C10_ZeroingLoop ==
    /\ [](phase = "running" => <>(phase = "returned"))
    /\ [](phase = "returned" =>
            ZeroedOnly([result |-> result, ptr |-> ptr, data |-> data,
                        output |-> output]))
    /\ [](BothReturned => instructions = <<Set(0)>> /\ ZeroedOnly(unoptimized[1]))

\* C10's case: "[+]" has wrapped a u8 cell from 1 around to 0.
C10_Witness ==
    /\ code = <<"[", "+", "]">>
    /\ T = 8
    /\ config # None /\ config[1].fill = 1
    /\ phase = "returned"
    /\ ~optimized
    /\ result = "Ok"
    /\ data[ptr + 1] = 0

(***************************************************************************)
(* Instruction vectors.  InstructionStream::new takes any vector of        *)
(* instructions, with amounts and targets the parser never produces; here  *)
(* code holds that vector.                                                 *)
(***************************************************************************)
CellAmounts(t) == {ONE_NON_ZERO, CellMax(t)}
PtrAmounts == {1, LargeAmount, U32_MAX}
Targets == {0, Placeholder}

StreamAlphabet(t) ==
    {Inc(a) : a \in CellAmounts(t)} \cup {Dec(a) : a \in CellAmounts(t)}
        \cup {Set(v) : v \in {ZERO, 1}}
        \cup {IncPtr(a) : a \in PtrAmounts} \cup {DecPtr(a) : a \in PtrAmounts}
        \cup {LoopStart(n) : n \in Targets} \cup {LoopEnd(n) : n \in Targets}
        \cup {Write}

Streams(t) == UNION {[1..n -> StreamAlphabet(t)] : n \in 0..MaxStreamLen}

InitStream ==
    /\ T \in CellTypes
    /\ code \in Streams(T)
    /\ instructions = <<>>
    /\ recommended_array_size = 0
    /\ compiled = "None"
    /\ optimized = FALSE
    /\ data = <<>>
    /\ ptr = 0
    /\ instructions_left = None
    /\ input = <<>>
    /\ output = <<>>
    /\ instruction_pointer = 0
    /\ result = "Pending"
    /\ config = None
    /\ unoptimized = None
    /\ executed = 0
    /\ phase = "vector"

\* InstructionStream::new(code)
NewStream ==
    /\ phase = "vector"
    /\ Compiled(new(code))
    /\ UNCHANGED <<code, T, optimized, interpreter, config, unoptimized>>

\* The sum optimize takes of the IncPtr amounts is a usize; the model sums
\* what fits its integers.
Summable(stream) ==
    \A i \in 1..Len(stream) : stream[i].op = "IncPtr" => stream[i].arg <= LargeAmount

\* InstructionStream::optimize on the stream new returned
OptimizeStream ==
    /\ phase = "compiled"
    /\ ~optimized
    /\ Summable(instructions)
    /\ Compiled(optimize(instructions, recommended_array_size, T))
    /\ optimized' = TRUE
    /\ UNCHANGED <<code, T, interpreter, config, unoptimized>>

\* InstructionStream::new on the instructions of a resolved stream
ResolveAgain ==
    /\ phase = "compiled"
    /\ LET r == new(instructions)
       IN  /\ compiled' = r.result
           /\ instructions' = r.instructions
           /\ recommended_array_size' = r.recommended_array_size
    /\ phase' = "resolved"
    /\ UNCHANGED <<code, T, optimized, interpreter, config, unoptimized>>

\* fold_like on the vector as given
FoldLike ==
    /\ phase = "vector"
    /\ instructions' = fold_like(code, T)
    /\ phase' = "folded"
    /\ UNCHANGED <<code, T, recommended_array_size, compiled, optimized,
                   interpreter, config, unoptimized>>

NextStream == NewStream \/ OptimizeStream \/ ResolveAgain \/ FoldLike

SpecStream == InitStream /\ [][NextStream]_vars

(***************************************************************************)
(* The recommended array size.                                             *)
(***************************************************************************)
\* The amounts of the IncPtr instructions of a stream, added up.
IncPtrTotal(stream) ==
    LET at[i \in 0..Len(stream)] ==
            IF i = 0 THEN 0
            ELSE at[i - 1] + (IF stream[i].op = "IncPtr" THEN stream[i].arg ELSE 0)
    IN  at[Len(stream)]

\* C11: the recommended array size of a stream is never below 30,000: it is
\* 30,000 in a stream new returns, and after optimize has returned Ok it is the larger of
\* 30,000 and the sum of the amounts of the IncPtr instructions the optimized
\* stream holds, whatever DecPtr instructions it holds.
C11_ArraySize ==
    phase \in {"compiled", "failed", "resolved"} =>
        /\ recommended_array_size >= MIN_ARRAY_SIZE
        /\ ~optimized \/ phase = "resolved" => recommended_array_size = MIN_ARRAY_SIZE
        /\ optimized /\ compiled = "Ok" /\ phase = "compiled" =>
               recommended_array_size =
                   IF IncPtrTotal(instructions) > MIN_ARRAY_SIZE
                   THEN IncPtrTotal(instructions)
                   ELSE MIN_ARRAY_SIZE

\* C11's case: an optimized stream whose IncPtr amounts add up to more than
\* 30,000, with a DecPtr that is not counted.
C11_Witness ==
    /\ optimized
    /\ compiled = "Ok"
    /\ phase = "compiled"
    /\ recommended_array_size = LargeAmount
    /\ HasOp(instructions, "DecPtr")

(***************************************************************************)
(* Algebra of the passes.                                                  *)
(***************************************************************************)
\* C12: optimize runs its rewrite to a fixed point: on a stream optimize has
\* returned, optimize once more leaves the instructions as they are, the
\* fold pass and the zeroing pass remove no instruction, and no two adjacent
\* instructions fold.
C12_FixedPoint ==
    optimized /\ phase = "compiled" =>
        /\ optimize(instructions, recommended_array_size, T).instructions = instructions
        /\ Len(fold_like(instructions, T)) = Len(instructions)
        /\ Len(recognize_zeroings(instructions)) = Len(instructions)
        /\ \A i \in 1..(Len(instructions) - 1) :
               fold_with(instructions[i], instructions[i + 1], T) = CantFold

\* The cell values an instruction's effect is compared on: all of a u8's,
\* and both ends of a u16's range.
CellValues(t) ==
    IF t = 8 THEN 0..CellMax(t)
    ELSE (0..MaxStreamLen) \cup ((CellMax(t) - MaxStreamLen)..CellMax(t))

\* What run's arms for Set, Inc and Dec make of a cell holding c.
CellEffect(instr, c, t) ==
    CASE instr.op = "Set" -> instr.arg
      [] instr.op = "Inc" -> wrapping_add(c, instr.arg, t)
      [] instr.op = "Dec" -> wrapping_sub(c, instr.arg, t)
      [] OTHER -> c

\* The cell after the instructions of stream, run in order on a cell
\* holding c.
CellAfter(stream, c, t) ==
    LET at[i \in 0..Len(stream)] ==
            IF i = 0 THEN c ELSE CellEffect(stream[i], at[i - 1], t)
    IN  at[Len(stream)]

Pure(stream, ops) ==
    stream # <<>> /\ \A i \in 1..Len(stream) : stream[i].op \in ops

\* The vector in another order.
Reordered(stream, p) == [i \in 1..Len(stream) |-> stream[p[i]]]

AnyOrder(stream) ==
    {Reordered(stream, p) : p \in Permutations(1..Len(stream))}

\* The amounts of a vector add up to at most limit.
RECURSIVE AmountsWithin(_, _)
AmountsWithin(stream, limit) ==
    \/ stream = <<>>
    \/ /\ Head(stream).arg <= limit
       /\ AmountsWithin(Tail(stream), limit - Head(stream).arg)

\* C13 as stated: a vector of Inc and Dec only, or of IncPtr and DecPtr only,
\* folds to the same single instruction, or to nothing, in every order.
C13_AsClaimed ==
    phase = "folded" /\ (Pure(code, {"Inc", "Dec"}) \/ Pure(code, {"IncPtr", "DecPtr"})) =>
        /\ Len(instructions) <= 1
        /\ \A other \in AnyOrder(code) : fold_like(other, T) = instructions

\* C13, amended: a vector of Inc and Dec only whose amounts add up to less
\* than 2^W, or of IncPtr and DecPtr only whose amounts add up to at most
\* the largest pointer amount, folds to the same single instruction, or to
\* nothing, in every order; a vector of Inc and Dec only folds in any case
\* to at most one instruction with the vector's effect on the cell.
C13_OrderIndependent ==
    phase = "folded" =>
        /\ \/ Pure(code, {"Inc", "Dec"}) /\ AmountsWithin(code, CellMax(T))
           \/ Pure(code, {"IncPtr", "DecPtr"}) /\ AmountsWithin(code, U32_MAX)
           => /\ Len(instructions) <= 1
              /\ \A other \in AnyOrder(code) : fold_like(other, T) = instructions
        /\ Pure(code, {"Inc", "Dec"}) =>
              /\ Len(instructions) <= 1
              /\ \A c \in CellValues(T) :
                     CellAfter(instructions, c, T) = CellAfter(code, c, T)

\* C13's case: Inc, Dec, Inc has folded to the Inc its other orders fold to.
C13_Witness ==
    /\ phase = "folded"
    /\ code = <<Inc(1), Dec(1), Inc(1)>>
    /\ instructions = <<Inc(1)>>
    /\ fold_like(<<Inc(1), Inc(1), Dec(1)>>, T) = instructions

\* The vector with the targets of its loop instructions at 0, as the parser
\* leaves them.
ZeroTargets(stream) ==
    [i \in 1..Len(stream) |->
        IF stream[i].op \in {"LoopStart", "LoopEnd"}
        THEN [op |-> stream[i].op, arg |-> 0]
        ELSE stream[i]]

\* C14: resolving a resolved stream again returns Ok and leaves every
\* instruction, targets included, as it was; and what resolution returns
\* does not depend on the targets the loop instructions held before.
C14_Idempotent ==
    [][ /\ ResolveAgain => compiled' = "Ok" /\ instructions' = instructions
        /\ NewStream =>
               LET r == insert_bf_jump_points(ZeroTargets(code))
               IN  /\ compiled' = r.result
                   /\ r.result = "Ok" => instructions' = r.instructions
      ]_vars

\* C14's case: a loop given with placeholder targets, resolved, optimized
\* and resolved again.
C14_Witness ==
    /\ phase = "resolved"
    /\ optimized
    /\ code # <<>> /\ code[1] = LoopStart(Placeholder)
    /\ instructions = <<LoopStart(2), Write, LoopEnd(0)>>

(***************************************************************************)
(* Input.                                                                  *)
(***************************************************************************)
\* C15: a Read executed at the end of the input stores 0 in the current
\* cell and the run goes on; a Read executed when the input holds a byte
\* stores the byte; run fails with InputIo only in a Read to which the input
\* reports an error, and the cells are then as they were.
C15_Read ==
    [][ /\ Executing("Read") /\ input = <<>> =>
               /\ data' = [data EXCEPT ![ptr + 1] = 0]
               /\ result' = "Running"
               /\ instruction_pointer' = instruction_pointer + 1
        /\ Executing("Read") /\ input # <<>> /\ Head(input)[1] = "Ok" =>
               /\ data' = [data EXCEPT ![ptr + 1] = Head(input)[2]]
               /\ result' = "Running"
        /\ Executing("Read") /\ input # <<>> /\ Head(input) = InputError =>
               /\ result' = "InputIo" /\ phase' = "returned"
               /\ data' = data
        /\ result' = "InputIo" /\ result = "Running" =>
               Executing("Read") /\ input # <<>> /\ Head(input) = InputError
      ]_vars

\* C15's case: a Read at the end of the input has put 0 in a cell that held
\* 1, and the run returned Ok.
C15_Witness ==
    /\ code = <<",">>
    /\ phase = "returned"
    /\ config[1].fill = 1
    /\ config[1].input = <<>>
    /\ result = "Ok"
    /\ data[ptr + 1] = 0

(***************************************************************************)
(* Parsing.  Texts with bytes that are no commands.                        *)
(***************************************************************************)
OtherBytes == {"a", " ", "0"}

InitParse ==
    /\ T \in CellTypes
    /\ code \in UNION {[1..n -> CommandBytes \cup OtherBytes] : n \in 0..MaxCodeLen}
    /\ instructions = <<>>
    /\ recommended_array_size = 0
    /\ compiled = "None"
    /\ optimized = FALSE
    /\ data = <<>>
    /\ ptr = 0
    /\ instructions_left = None
    /\ input = <<>>
    /\ output = <<>>
    /\ instruction_pointer = 0
    /\ result = "Pending"
    /\ config = None
    /\ unoptimized = None
    /\ executed = 0
    /\ phase = "source"

\* InstructionStream::instructions_from_text(code)
Parse ==
    /\ phase = "source"
    /\ instructions' = instructions_from_text(code)
    /\ phase' = "parsed"
    /\ UNCHANGED <<code, T, recommended_array_size, compiled, optimized,
                   interpreter, config, unoptimized>>

NextParse == Parse \/ FromCode

SpecParse == InitParse /\ [][NextParse]_vars

\* The instruction each command byte stands for.
InstructionOf ==
    [b \in CommandBytes |->
        CASE b = "+" -> [op |-> "Inc", arg |-> 1]
          [] b = "-" -> [op |-> "Dec", arg |-> 1]
          [] b = ">" -> [op |-> "IncPtr", arg |-> 1]
          [] b = "<" -> [op |-> "DecPtr", arg |-> 1]
          [] b = "." -> [op |-> "Write", arg |-> 0]
          [] b = "," -> [op |-> "Read", arg |-> 0]
          [] b = "[" -> [op |-> "LoopStart", arg |-> 0]
          [] b = "]" -> [op |-> "LoopEnd", arg |-> 0]]

IsCommand(b) == b \in CommandBytes

\* One instruction for each command byte of the text, in the text's order.
Commands(text) ==
    LET bytes == SelectSeq(text, IsCommand)
    IN  [i \in 1..Len(bytes) |-> InstructionOf[bytes[i]]]

NestedLoops ==
    <<"+", "+", "+", "+", "[", ">", "+", "+", "+", "+", "[", ">", "+", "+",
      "+", "+", "<", "-", "]", "<", "-", "]", ">", ">", "+", ".">>

InitNested ==
    /\ T = 8
    /\ code = NestedLoops
    /\ instructions = <<>>
    /\ recommended_array_size = 0
    /\ compiled = "None"
    /\ optimized = FALSE
    /\ data = <<>>
    /\ ptr = 0
    /\ instructions_left = None
    /\ input = <<>>
    /\ output = <<>>
    /\ instruction_pointer = 0
    /\ result = "Pending"
    /\ config = None
    /\ unoptimized = None
    /\ executed = 0
    /\ phase = "source"

\* Interpreter::build(std::io::empty(), &mut out)
\*     .instruction_limit(1_000_000).build()
BuildTest ==
    /\ phase = "compiled"
    /\ ~optimized
    /\ BuildWith([data_array_size |-> TestTape, initial_data_pointer |-> 0,
                  fill |-> 0, instruction_limit |-> Some(TEST_INSTRUCTION_LIMIT),
                  input |-> <<>>])

RunNested ==
    \/ RunEnter \/ Halt \/ ExecInc \/ ExecDec \/ ExecIncPtr \/ ExecDecPtr
    \/ ExecWrite \/ ExecLoopStart \/ ExecLoopEnd

NextNested == FromCode \/ BuildTest \/ Optimize \/ Rebuild \/ RunNested

SpecNested == InitNested /\ [][NextNested]_vars /\ WF_vars(RunNested)

\* C17: "++++[>++++[>++++<-]<-]>>+." with u8 cells, a tape of zeros, the
\* pointer at 0 and a limit of 1,000,000 returns Ok having written the one
\* byte 65 ("A"), unoptimized and optimized.
C17_NestedLoops ==
    /\ [](phase = "running" => <>(phase = "returned"))
    /\ [](phase = "returned" => result = "Ok" /\ output = <<65>>)

\* C17's case: both runs have returned, the second on the shorter stream.
C17_Witness ==
    /\ code = NestedLoops
    /\ BothReturned
    /\ unoptimized[1].result = "Ok" /\ unoptimized[1].output = <<65>>
    /\ result = "Ok" /\ output = <<65>>
    /\ Len(instructions) < Len(SourceInstructions)
    /\ executed < unoptimized[1].executed

\* "+[>+]"
RunAway == <<"+", "[", ">", "+", "]">>

InitRunAway ==
    /\ T \in CellTypes
    /\ code = RunAway
    /\ instructions = <<>>
    /\ recommended_array_size = 0
    /\ compiled = "None"
    /\ optimized = FALSE
    /\ data = <<>>
    /\ ptr = 0
    /\ instructions_left = None
    /\ input = <<>>
    /\ output = <<>>
    /\ instruction_pointer = 0
    /\ result = "Pending"
    /\ config = None
    /\ unoptimized = None
    /\ executed = 0
    /\ phase = "source"

\* Builder with data_array_size(L), fill_cells(fill) and either no
\* instruction limit or one of 0..3L+1; the pointer starts at 0.
BuildRunAway ==
    /\ phase = "compiled"
    /\ ~optimized
    /\ \E size \in 1..MaxTape, fill \in {ZERO, CellMax(T)},
          limit \in {None} \cup {Some(n) : n \in 0..(3 * MaxTape + 1)} :
           /\ limit # None => limit[1] <= 3 * size + 1
           /\ BuildWith([data_array_size |-> size, initial_data_pointer |-> 0,
                         fill |-> fill, instruction_limit |-> limit, input |-> <<>>])

RunRunAway ==
    \/ RunEnter \/ Halt \/ LimitReached
    \/ ExecInc \/ ExecIncPtr \/ ExecLoopStart \/ ExecLoopEnd

NextRunAway == FromCode \/ BuildRunAway \/ Optimize \/ Rebuild \/ RunRunAway

SpecRunAway == InitRunAway /\ [][NextRunAway]_vars /\ WF_vars(RunRunAway)

\* The run reaches the IncPtr that leaves the tape after "+", "[" and L - 1
\* rounds of ">", "+", "]"; that IncPtr passes the limit check too.
Sufficient(c) ==
    c.instruction_limit = None \/ c.instruction_limit[1] >= 3 * c.data_array_size

\* C18: on a tape of L >= 1 zeros, from cell 0, with no limit or a sufficient
\* one, "+[>+]" returns, and returns Overflow with the pointer at L - 1 and
\* every cell 1; it returns neither Ok nor another error.
C18_RunAway ==
    /\ [](phase = "running" => <>(phase = "returned"))
    /\ [](phase = "returned" /\ config[1].fill = ZERO =>
             IF Sufficient(config[1])
             THEN /\ result = "Overflow"
                  /\ ptr = Len(data) - 1
                  /\ \A i \in 1..Len(data) : data[i] = 1
             ELSE result = "NotEnoughInstructions")

\* C18's case: the run on the longest tape has walked to its end.
C18_Witness ==
    /\ code = RunAway
    /\ phase = "returned"
    /\ config[1].fill = ZERO
    /\ config[1].instruction_limit = None
    /\ Len(data) = MaxTape
    /\ result = "Overflow"
    /\ ptr = MaxTape - 1
    /\ data = [i \in 1..MaxTape |-> 1]

(***************************************************************************)
(* The fold rules, pair by pair.                                           *)
(***************************************************************************)
\* What fold_like leaves of a pair that fold_with answers with r.
Remains(pair, r) ==
    CASE r.kind = "Folded" -> <<r.instr[1]>>
      [] r.kind = "NoOp" -> <<>>
      [] r.kind = "CantFold" -> pair

\* Amounts at the ends and around the middle of the cell type's range.
EdgeAmounts(t) ==
    LET half == (CellMax(t) + 1) \div 2
    IN  {ONE_NON_ZERO, ONE_NON_ZERO + 1, half - 1, half, half + 1,
         CellMax(t) - 1, CellMax(t)}

\* The pair with other amounts.
WithAmounts(pair, a, b) ==
    <<[op |-> pair[1].op, arg |-> a], [op |-> pair[2].op, arg |-> b]>>

\* C19: a pair of Inc, Dec and Set instructions that fold_with has a rule
\* for folds to one instruction, or to nothing, that leaves every cell
\* value as the pair in order leaves it, all arithmetic wrapping.
C19_CellFolds ==
    phase = "folded" /\ Len(code) = 2 /\ Pure(code, {"Inc", "Dec", "Set"}) =>
        LET r == fold_with(code[1], code[2], T)
        IN  /\ code[1].op \in {"Inc", "Dec"} \/ code[2].op = "Set" => r.kind # "CantFold"
            /\ code[1].op = "Set" /\ code[2].op # "Set" => r.kind = "Folded"
            /\ instructions = Remains(code, r)
            /\ \A c \in CellValues(T) :
                   /\ CellAfter(instructions, c, T) = CellAfter(code, c, T)
                   /\ r.kind = "NoOp" => CellAfter(code, c, T) = c
            /\ \A a, b \in EdgeAmounts(T) :
                   LET pair == WithAmounts(code, a, b)
                       folded == Remains(pair, fold_with(pair[1], pair[2], T))
                   IN  /\ Len(folded) <= 1
                       /\ \A c \in CellValues(T) :
                              CellAfter(folded, c, T) = CellAfter(pair, c, T)

\* C19's case: Set(0), Dec(1) has become Set(max).
C19_Witness ==
    /\ phase = "folded"
    /\ code = <<Set(ZERO), Dec(ONE_NON_ZERO)>>
    /\ instructions = <<Set(CellMax(T))>>

\* The signed displacement of one pointer move.
Move(instr) == IF instr.op = "IncPtr" THEN instr.arg ELSE 0 - instr.arg

\* The pointer move of displacement d, or nothing when d = 0.
MoveBy(d) ==
    IF d > 0 THEN <<[op |-> "IncPtr", arg |-> d]>>
    ELSE IF d < 0 THEN <<[op |-> "DecPtr", arg |-> 0 - d]>>
    ELSE <<>>

\* C20: two pointer moves in the same direction fold to one move of the sum
\* of the amounts where the sum fits the amount's 32 bits, and stay as they
\* are, in their order, where it does not; two moves in opposite directions
\* fold to the move of their net displacement, or to nothing when the
\* amounts are equal.  The displacement of the result is that of the pair.
C20_PointerFolds ==
    phase = "folded" /\ Len(code) = 2 /\ Pure(code, {"IncPtr", "DecPtr"}) =>
        LET a == code[1].arg
            b == code[2].arg
        IN  IF code[1].op = code[2].op
            THEN IF a <= U32_MAX - b
                 THEN /\ instructions = <<[op |-> code[1].op, arg |-> a + b]>>
                      /\ Move(instructions[1]) = Move(code[1]) + Move(code[2])
                 ELSE instructions = code
            ELSE /\ instructions = MoveBy(Move(code[1]) + Move(code[2]))
                 /\ a = b <=> instructions = <<>>
                 /\ Len(instructions) <= 1
                 /\ instructions # <<>> =>
                        Move(instructions[1]) = Move(code[1]) + Move(code[2])

\* C20's case: a pair whose sum does not fit is left as it was.
C20_Witness ==
    /\ phase = "folded"
    /\ code = <<[op |-> "IncPtr", arg |-> U32_MAX], [op |-> "IncPtr", arg |-> ONE_NON_ZERO]>>
    /\ instructions = code

(***************************************************************************)
(* The steps of run, one by one.                                           *)
(***************************************************************************)
\* The loop body is about to take the branch of a loop instruction.
Branches ==
    \/ Executing("LoopStart") /\ cur_unchecked = ZERO
    \/ Executing("LoopEnd") /\ cur_unchecked # ZERO

\* The instruction at index i of the stream, counted from 0.
At(i) == instructions[i + 1]

\* C21 as stated: the instruction pointer is advanced by 1 only where no
\* branch was taken, and a taken branch leaves it on the partner.
C21_AsClaimed ==
    [][ /\ Exec /\ phase' = "running" /\ ~Branches =>
               instruction_pointer' = instruction_pointer + 1
        /\ Exec /\ phase' = "running" /\ Branches =>
               instruction_pointer' = Current.arg
      ]_vars

\* C21: every instruction that run gets past advances the instruction
\* pointer by 1, a taken branch after the jump: past a non-jump, or a loop
\* instruction that falls through, it is one more than it was; past a
\* LoopStart(end) on a zero cell it is end + 1 and past a LoopEnd(start) on a
\* non-zero cell it is start + 1, the index after the partner.  A step that
\* returns an error leaves it where it was.
C21_Jumps ==
    [][ /\ Exec /\ ~Branches /\ result' \notin {"Overflow", "Underflow", "InputIo"} =>
               instruction_pointer' = instruction_pointer + 1
        /\ Exec /\ result' \in {"Overflow", "Underflow", "InputIo"} =>
               instruction_pointer' = instruction_pointer
        /\ ExecLoopStart /\ cur_unchecked = ZERO =>
               /\ instruction_pointer' = Current.arg + 1
               /\ Current.arg > instruction_pointer
               /\ At(Current.arg) = [op |-> "LoopEnd", arg |-> instruction_pointer]
        /\ ExecLoopEnd /\ cur_unchecked # ZERO =>
               /\ instruction_pointer' = Current.arg + 1
               /\ Current.arg < instruction_pointer
               /\ At(Current.arg) = [op |-> "LoopStart", arg |-> instruction_pointer]
      ]_vars

\* C21's case: the one instruction a limited run has executed is a
\* LoopStart that branched over its loop.
C21_Witness ==
    /\ phase = "running"
    /\ executed = 1
    /\ instructions # <<>>
    /\ instructions[1].op = "LoopStart"
    /\ instruction_pointer = instructions[1].arg + 1
    /\ instruction_pointer > 1

\* The cells other than the current one are as they were.
OthersKept ==
    /\ Len(data') = Len(data)
    /\ \A i \in 1..Len(data) : i # ptr + 1 => data'[i] = data[i]

RunAlphabet ==
    {Inc(ONE_NON_ZERO), Dec(ONE_NON_ZERO), Set(ZERO), IncPtr(1),
     IncPtr(LargeAmount), DecPtr(1), Write, Read}
        \cup {LoopStart(n) : n \in Targets} \cup {LoopEnd(n) : n \in Targets}

Slices == UNION {[1..n -> RunAlphabet] : n \in 0..MaxStreamLen}

\* The slice as it is, or as InstructionStream::new resolves it; compiled
\* tells which.
InitSlice ==
    /\ T \in CellTypes
    /\ code \in Slices
    /\ \/ compiled = "None" /\ instructions = code
       \/ /\ compiled = "Ok"
          /\ new(code).result = "Ok"
          /\ instructions = new(code).instructions
    /\ recommended_array_size = MIN_ARRAY_SIZE
    /\ optimized = FALSE
    /\ data = <<>>
    /\ ptr = 0
    /\ instructions_left = None
    /\ input = <<>>
    /\ output = <<>>
    /\ instruction_pointer = 0
    /\ result = "Pending"
    /\ config = None
    /\ unoptimized = None
    /\ executed = 0
    /\ phase = "compiled"

NextSlice == Build \/ Run

SpecSlice == InitSlice /\ [][NextSlice]_vars

\* C23: once run's check of the starting pointer has passed, the pointer is
\* an index of the data array in every state, the state a failed IncPtr or
\* DecPtr leaves included, whatever the instructions; on a resolved stream
\* the instruction pointer never exceeds the stream's length; and every
\* instruction and cell the loop body reads is there.
C23_InBounds ==
    /\ phase = "running" \/ (phase = "returned" /\ result # "InitOverflow") =>
           ptr >= 0 /\ ptr < Len(data)
    /\ phase \in {"running", "returned"} /\ compiled = "Ok" =>
           instruction_pointer >= 0 /\ instruction_pointer <= Len(instructions)
    /\ phase = "running" /\ instruction_pointer < Len(instructions) =>
           /\ instruction_pointer + 1 \in DOMAIN instructions
           /\ ptr + 1 \in DOMAIN data

\* C23's case: an IncPtr has failed at the last cell and left the pointer
\* there.
C23_Witness ==
    /\ phase = "returned"
    /\ result = "Overflow"
    /\ compiled = "Ok"
    /\ Len(data) = MaxArrayLen
    /\ ptr = MaxArrayLen - 1
    /\ Current = IncPtr(LargeAmount)

(***************************************************************************)
(* Failures of compilation.                                                *)
(***************************************************************************)
\* How many instructions of kind op the stream holds.
OpCount(stream, op) == Cardinality({i \in 1..Len(stream) : stream[i].op = op})

\* C24: optimized_from_code returns what from_code returns, Ok or the same
\* error; optimize on a stream from_code built returns Ok; the passes
\* remove as many LoopStart as LoopEnd.
C24_SameFailure ==
    phase # "source" =>
        /\ optimized_from_code(code, T).result = from_code(code).result
        /\ phase \in {"compiled", "failed"} => compiled = from_code(code).result
        /\ optimized /\ unoptimized # None => compiled = "Ok" /\ phase # "failed"
        /\ LET passed == Passes(SourceInstructions, T)
           IN  OpCount(SourceInstructions, "LoopStart") - OpCount(passed, "LoopStart")
                   = OpCount(SourceInstructions, "LoopEnd") - OpCount(passed, "LoopEnd")

\* C24's case: optimized_from_code has failed on "[-]]", whose loop the
\* passes replace.
C24_Witness ==
    /\ code = <<"[", "-", "]", "]">>
    /\ phase = "failed"
    /\ optimized
    /\ compiled = "UnmatchedEnd"
    /\ instructions = <<Set(ZERO), LoopEnd(0)>>

(***************************************************************************)
(* What recognize_zeroings leaves alone.                                   *)
(***************************************************************************)
\* The loops of a stream: the indices, from 1, of each LoopStart and of the
\* LoopEnd that closes it.
Loops(stream) ==
    LET r == insert_bf_jump_points(stream)
    IN  IF r.result # "Ok" THEN {}
        ELSE {<<i, r.instructions[i].arg + 1>> :
                  i \in {j \in 1..Len(stream) : stream[j].op = "LoopStart"}}

\* The loops that do not have the shape LoopStart, Inc(1) | Dec(1), LoopEnd.
OtherLoops(stream) == {l \in Loops(stream) : (l[1] - 1) \notin ZeroingSites(stream)}

\* The loop l of the stream, from its LoopStart to its LoopEnd, the targets
\* left out.
LoopOf(stream, l) == ZeroTargets(SubSeq(stream, l[1], l[2]))

\* seg is a run of consecutive instructions of the stream.
Occurs(seg, stream) ==
    \E k \in 1..(Len(stream) - Len(seg) + 1) :
        ZeroTargets(SubSeq(stream, k, k + Len(seg) - 1)) = seg

\* The stream with every occurrence of the shape replaced by Set(0) and
\* every other instruction kept, in order.
Rewritten(stream) ==
    LET sites == ZeroingSites(stream)
        Kept(i) == (i - 2) \notin sites /\ (i - 3) \notin sites
        idxs == SelectSeq([i \in 1..Len(stream) |-> i], Kept)
    IN  [k \in 1..Len(idxs) |->
            IF (idxs[k] - 1) \in sites THEN Set(ZERO) ELSE stream[idxs[k]]]

\* The stream as recognize_zeroings meets it, as it leaves it, and as the
\* last fold pass leaves it.
Met == fold_like(SourceInstructions, T)
Recognized == recognize_zeroings(Met)
Passed == fold_like(Recognized, T)

\* C25 as stated: every loop that has not the shape when recognize_zeroings
\* meets it is in the optimized stream with the body it had.
C25_AsClaimed ==
    optimized /\ phase = "compiled" =>
        \A l \in OtherLoops(Met) : Occurs(LoopOf(Met, l), instructions)

\* C25: recognize_zeroings replaces the occurrences of LoopStart,
\* Inc(1) | Dec(1), LoopEnd and keeps every other instruction.  A loop that
\* has not the shape when the pass meets it, and holds no loop that has, is
\* in the result of the pass with its body; having an empty body or one
\* instruction, it is in the optimized stream with that body.  A loop of
\* more instructions keeps its LoopStart and LoopEnd in the optimized
\* stream, around what the pass and last fold make of its body.
C25_OnlyTheShape ==
    optimized /\ phase = "compiled" =>
        /\ Recognized = Rewritten(Met)
        /\ ZeroTargets(instructions) = ZeroTargets(Passed)
        /\ \A l \in OtherLoops(Met) :
               /\ (\A i \in ZeroingSites(Met) : i + 1 < l[1] \/ i + 1 > l[2]) =>
                      Occurs(LoopOf(Met, l), Recognized)
               /\ l[2] - l[1] <= 2 => Occurs(LoopOf(Met, l), instructions)
        /\ OpCount(instructions, "LoopStart")
               = OpCount(Met, "LoopStart") - Cardinality(ZeroingSites(Met))
        /\ Cardinality(Loops(instructions)) = Cardinality(OtherLoops(Met))

\* C25's case: "[--]" has reached the pass as LoopStart, Dec(2), LoopEnd and
\* is that in the optimized stream.
C25_Witness ==
    /\ code = <<"[", "-", "-", "]">>
    /\ optimized
    /\ phase = "compiled"
    /\ instructions = <<LoopStart(2), Dec(2), LoopEnd(0)>>

====
